---- MODULE Spec2Model ----
(***************************************************************************)
(* Three timer queues of Three-Kinds-Of-Timer:                             *)
(*   sort_timer_lst  (lst_timer.hpp)        ascending doubly linked list   *)
(*   time_heap       (time_heap_timer.hpp)  binary min-heap in an array    *)
(*   time_wheel      (time_heap_timer.hpp)  hashed wheel of N buckets      *)
(* A host owns exactly one queue; `queue` says which one a behaviour uses. *)
(* Timer objects are numbered from 1 in the order they are created; 0 is   *)
(* the null pointer.  The contents of a deleted object (mem = "freed") are *)
(* indeterminate and the model keeps none of them.                         *)
(* An invocation of cb_func is recorded by appending to a log.  Callbacks  *)
(* do not call back into the queue, except under SpecReentrant.  call,     *)
(* fired, invoked, cancelled, sched and ticks record what the host did and *)
(* saw; the queues never read them.                                        *)
(***************************************************************************)
EXTENDS Integers, Sequences, FiniteSets, TLC

MaxTimers == 3
MaxTime == 3
MaxCap == 1
MaxTicks == 3
MaxDeep == 4
DeepTime == 4
MaxList == 4
ListTime == 2
MaxCalls == 2
MaxSeed == 4

NULL == 0
N == 60
SI == 1

MaxIds ==
  LET m == IF MaxDeep > MaxTimers THEN MaxDeep ELSE MaxTimers
      n == IF MaxList > m THEN MaxList ELSE m
  IN IF MaxSeed > n THEN MaxSeed ELSE n
Ids == 1..MaxIds
Ptrs == 0..MaxIds
Timeouts == {-1, 0, N - 1, N}

VARIABLES queue, lst, heap, tw, call, fired, invoked, cancelled, sched, ticks

vars == <<queue, lst, heap, tw, call, fired, invoked, cancelled, sched, ticks>>

\* the next object the host creates
NewId(mem) == CHOOSE h \in Ids : mem[h] = "unused" /\ \A g \in Ids : g < h => mem[g] # "unused"
CanCreate(mem, limit) == \E h \in 1..limit : mem[h] = "unused"

Range(s) == {s[i] : i \in 1..Len(s)}
Count(s, h) == Cardinality({i \in 1..Len(s) : s[i].h = h})
Entry(h, key, slot) == [h |-> h, key |-> key, slot |-> slot]
Call(op, h, t, ret) == [op |-> op, h |-> h, t |-> t, ret |-> ret]

(***************************************************************************)
(*                      sort_timer_lst (lst_timer.hpp)                     *)
(***************************************************************************)

\* sort_timer_lst() and util_timer(): empty list, no object created yet
lst_init ==
  [head |-> NULL, tail |-> NULL,
   expire |-> [h \in Ids |-> 0],
   prev |-> [h \in Ids |-> NULL],
   next |-> [h \in Ids |-> NULL],
   mem |-> [h \in Ids |-> "unused"],
   status |-> "ok"]

\* new util_timer; timer->expire = e  (prev and next start null)
lst_new_timer(l, h, e) ==
  [l EXCEPT !.mem[h] = "live", !.expire[h] = e, !.prev[h] = NULL, !.next[h] = NULL]

\* delete timer: the object's storage is handed back and its contents are no
\* longer the program's; the model keeps nothing of them
lst_free(l, h) ==
  [l EXCEPT !.mem[h] = "freed", !.expire[h] = 0, !.prev[h] = NULL, !.next[h] = NULL]

\* variant: a record of equal expire is overtaken
lst_before_tie(l, timer, tmp) == l.expire[timer] <= l.expire[tmp]

\* variant: the comparison turned round
lst_before_m(l, timer, tmp) == l.expire[timer] > l.expire[tmp]

\* the test of the insertion walk: timer->expire < tmp->expire
lst_before(l, timer, tmp) == l.expire[timer] < l.expire[tmp]

RECURSIVE lst_insert_walk(_, _, _, _)
\* the while loop and the tail case of add_timer(timer, lst_head)
lst_insert_walk(l, timer, prev, tmp) ==
  IF tmp = NULL
    THEN [l EXCEPT !.next[prev] = timer, !.prev[timer] = prev,
                   !.next[timer] = NULL, !.tail = timer]
    ELSE IF lst_before(l, timer, tmp)
      THEN [l EXCEPT !.next[prev] = timer, !.next[timer] = tmp,
                     !.prev[tmp] = timer, !.prev[timer] = prev]
      ELSE lst_insert_walk(l, timer, tmp, l.next[tmp])

\* private add_timer(timer, lst_head): insert somewhere after lst_head
lst_add_timer_after(l, timer, lst_head) ==
  lst_insert_walk(l, timer, lst_head, l.next[lst_head])

\* public add_timer(timer)
lst_add_timer(l, timer) ==
  IF timer = NULL THEN l
  ELSE IF l.head = NULL THEN [l EXCEPT !.head = timer, !.tail = timer]
  ELSE IF l.expire[timer] < l.expire[l.head]
    THEN [l EXCEPT !.next[timer] = l.head, !.prev[l.head] = timer, !.head = timer]
    ELSE lst_add_timer_after(l, timer, l.head)

\* variant: the record stays where it is
lst_adjust_timer_m(l, timer) == l

\* adjust_timer(timer), called after the host has raised timer->expire
lst_adjust_timer(l, timer) ==
  IF timer = NULL THEN l
  ELSE LET tmp == l.next[timer] IN
    IF tmp = NULL \/ l.expire[timer] < l.expire[tmp] THEN l
    ELSE IF timer = l.head
      THEN lst_add_timer_after(
             [l EXCEPT !.head = tmp, !.prev[tmp] = NULL, !.next[timer] = NULL],
             timer, tmp)
      ELSE lst_add_timer_after(
             [l EXCEPT !.next[l.prev[timer]] = tmp, !.prev[tmp] = l.prev[timer]],
             timer, tmp)

\* variant: the tail case forgets to end the list at the new tail
lst_del_timer_m(l, timer) ==
  IF timer = NULL THEN l
  ELSE IF timer = l.head /\ timer = l.tail
    THEN lst_free([l EXCEPT !.head = NULL, !.tail = NULL], timer)
  ELSE IF timer = l.head
    THEN lst_free([l EXCEPT !.head = l.next[timer], !.prev[l.next[timer]] = NULL], timer)
  ELSE IF timer = l.tail
    THEN lst_free([l EXCEPT !.tail = l.prev[timer]], timer)
  ELSE lst_free([l EXCEPT !.next[l.prev[timer]] = l.next[timer],
                          !.prev[l.next[timer]] = l.prev[timer]], timer)

\* del_timer(timer); the pointers it follows are non-null for a timer of the list
lst_del_timer(l, timer) ==
  IF timer = NULL THEN l
  ELSE IF timer = l.head /\ timer = l.tail
    THEN lst_free([l EXCEPT !.head = NULL, !.tail = NULL], timer)
  ELSE IF timer = l.head
    THEN lst_free([l EXCEPT !.head = l.next[timer], !.prev[l.next[timer]] = NULL], timer)
  ELSE IF timer = l.tail
    THEN lst_free([l EXCEPT !.tail = l.prev[timer], !.next[l.prev[timer]] = NULL], timer)
  ELSE lst_free([l EXCEPT !.next[l.prev[timer]] = l.next[timer],
                          !.prev[l.next[timer]] = l.prev[timer]], timer)

\* the loop exit of tick: cur < tmp->expire
lst_not_due(l, tmp, cur) == cur < l.expire[tmp]

RECURSIVE lst_tick_loop(_, _, _, _)
\* while(tmp) of tick: fire, unlink from the head, delete
lst_tick_loop(l, cur, tmp, log) ==
  IF tmp = NULL \/ lst_not_due(l, tmp, cur) THEN [q |-> l, log |-> log]
  ELSE LET nh == l.next[tmp]
           l1 == [l EXCEPT !.head = nh]
           l2 == IF nh # NULL THEN [l1 EXCEPT !.prev[nh] = NULL] ELSE l1
           l3 == lst_free(l2, tmp)
       IN lst_tick_loop(l3, cur, nh, Append(log, Entry(tmp, l.expire[tmp], 0)))

\* tick() at time cur
lst_tick(l, cur) ==
  IF l.head = NULL THEN [q |-> l, log |-> <<>>]
  ELSE lst_tick_loop(l, cur, l.head, <<>>)

\* the timers linked from head, in order
RECURSIVE lst_chain(_, _, _)
lst_chain(l, h, fuel) ==
  IF h = NULL \/ fuel = 0 THEN <<>> ELSE <<h>> \o lst_chain(l, l.next[h], fuel - 1)
lst_seq(l) == lst_chain(l, l.head, MaxIds + 1)


(***************************************************************************)
(*                     time_heap (time_heap_timer.hpp)                     *)
(***************************************************************************)

\* time_heap(cap): an array of cap null slots, cur_size 0
heap_init(cap) ==
  [array |-> [i \in 0..(cap - 1) |-> NULL],
   capacity |-> cap, cur_size |-> 0,
   expire |-> [h \in Ids |-> 0],
   cb_func |-> [h \in Ids |-> FALSE],
   mem |-> [h \in Ids |-> "unused"],
   status |-> "ok"]

\* new heap_timer(delay): expire = time(NULL) + delay = e; the host then sets cb_func
heap_new_timer(hp, h, e) ==
  [hp EXCEPT !.mem[h] = "live", !.expire[h] = e, !.cb_func[h] = TRUE]

\* delete array[0]
heap_free(hp, h) ==
  [hp EXCEPT !.mem[h] = "freed", !.expire[h] = 0, !.cb_func[h] = FALSE]

\* empty()
heap_empty(hp) == hp.cur_size = 0

\* variant: the array grows by one slot
heap_resize_m(hp) ==
  [hp EXCEPT !.capacity = hp.capacity + 1,
             !.array = [i \in 0..hp.capacity |->
                          IF i < hp.cur_size THEN hp.array[i] ELSE NULL]]

\* resize(): twice the capacity, the first cur_size slots copied, the rest null
heap_resize(hp) ==
  [hp EXCEPT !.capacity = 2 * hp.capacity,
             !.array = [i \in 0..(2 * hp.capacity - 1) |->
                          IF i < hp.cur_size THEN hp.array[i] ELSE NULL]]

\* variant: the comparison turned round
heap_parent_ok_m(hp, parent, timer) == hp.expire[hp.array[parent]] >= hp.expire[timer]

\* the test of the sift-up: array[parent]->expire <= timer->expire
heap_parent_ok(hp, parent, timer) == hp.expire[hp.array[parent]] <= hp.expire[timer]

RECURSIVE heap_percolate_up(_, _, _)
\* the for loop of add_timer and the final array[hole] = timer
heap_percolate_up(hp, timer, hole) ==
  IF hole > 0
    THEN LET parent == (hole - 1) \div 2 IN
      IF heap_parent_ok(hp, parent, timer)
        THEN [hp EXCEPT !.array[hole] = timer]
        ELSE heap_percolate_up([hp EXCEPT !.array[hole] = hp.array[parent]], timer, parent)
    ELSE [hp EXCEPT !.array[hole] = timer]

\* variant: a null timer is ignored instead of thrown on
heap_add_timer_m(hp, timer) ==
  IF timer = NULL THEN [q |-> hp, ret |-> "ok"]
  ELSE LET h1 == IF hp.cur_size >= hp.capacity THEN heap_resize(hp) ELSE hp
           hole == h1.cur_size
           h2 == [h1 EXCEPT !.cur_size = hole + 1]
       IN [q |-> heap_percolate_up(h2, timer, hole), ret |-> "ok"]

\* add_timer(timer): throws on null, grows when full, sifts up from hole = cur_size++
heap_add_timer(hp, timer) ==
  IF timer = NULL THEN [q |-> hp, ret |-> "throw"]
  ELSE LET h1 == IF hp.cur_size >= hp.capacity THEN heap_resize(hp) ELSE hp
           hole == h1.cur_size
           h2 == [h1 EXCEPT !.cur_size = hole + 1]
       IN [q |-> heap_percolate_up(h2, timer, hole), ret |-> "ok"]

\* variant: the cancel also shortens the heap
heap_del_timer_drop(hp, timer) ==
  IF timer = NULL THEN hp
  ELSE [hp EXCEPT !.cb_func[timer] = FALSE, !.cur_size = hp.cur_size - 1]

\* variant: the callback is left in place
heap_del_timer_m(hp, timer) == hp

\* del_timer(timer): lazy, only clears the callback
heap_del_timer(hp, timer) ==
  IF timer = NULL THEN hp ELSE [hp EXCEPT !.cb_func[timer] = FALSE]

\* variant: the right child is never looked at
heap_child_m(hp, hole) == hole * 2 + 1

\* the smaller child of hole: child = hole*2+1, ++child when the right one is smaller
heap_child(hp, hole) ==
  LET child == hole * 2 + 1 IN
    IF child < hp.cur_size - 1
       /\ hp.expire[hp.array[child + 1]] < hp.expire[hp.array[child]]
      THEN child + 1 ELSE child

RECURSIVE heap_down_loop(_, _, _)
\* the for loop of percolate_down and the final array[hole] = temp
heap_down_loop(hp, temp, hole) ==
  IF hole * 2 + 1 <= hp.cur_size - 1
    THEN LET child == heap_child(hp, hole) IN
      IF hp.expire[hp.array[child]] < hp.expire[temp]
        THEN heap_down_loop([hp EXCEPT !.array[hole] = hp.array[child]], temp, child)
        ELSE [hp EXCEPT !.array[hole] = temp]
    ELSE [hp EXCEPT !.array[hole] = temp]

\* percolate_down(hole)
heap_percolate_down(hp, hole) == heap_down_loop(hp, hp.array[hole], hole)

\* pop_timer(): delete array[0]; array[0] = array[--cur_size]; percolate_down(0)
heap_pop_timer(hp) ==
  IF heap_empty(hp) THEN hp
  ELSE IF hp.array[0] # NULL
    THEN LET last == hp.cur_size - 1
             h1 == heap_free(hp, hp.array[0])
             h2 == [h1 EXCEPT !.cur_size = last, !.array[0] = hp.array[last]]
         IN heap_percolate_down(h2, 0)
    ELSE hp

\* variant: a record that expires exactly now is taken as not due
heap_not_due_m(hp, tmp, cur) == hp.expire[tmp] >= cur

\* the loop exit of tick: tmp->expire > cur
heap_not_due(hp, tmp, cur) == hp.expire[tmp] > cur

\* if(array[0]->cb_func) array[0]->cb_func(array[0]->user_data)
heap_fire(hp, log) ==
  IF hp.cb_func[hp.array[0]]
    THEN Append(log, Entry(hp.array[0], hp.expire[hp.array[0]], 0))
    ELSE log

RECURSIVE heap_tick_loop(_, _, _, _)
\* while(!empty()) of tick
heap_tick_loop(hp, cur, tmp, log) ==
  IF heap_empty(hp) \/ tmp = NULL THEN [q |-> hp, log |-> log]
  ELSE IF heap_not_due(hp, tmp, cur) THEN [q |-> hp, log |-> log]
  ELSE LET h1 == heap_pop_timer(hp) IN
         heap_tick_loop(h1, cur, h1.array[0], heap_fire(hp, log))

\* tick() at time cur
heap_tick(hp, cur) == heap_tick_loop(hp, cur, hp.array[0], <<>>)

\* the records of the heap, root first
heap_seq(hp) == [i \in 1..hp.cur_size |-> hp.array[i - 1]]

(***************************************************************************)
(*                    time_wheel (time_heap_timer.hpp)                     *)
(***************************************************************************)
(* slots[] has N entries, all null at first.  The model keeps the non-null *)
(* ones: slots is a function from the indices that hold a timer to that    *)
(* timer.  add_timer indexes the array with cur_slot + ticks % N, which    *)
(* can be N..2N-2: an entry of slots at such an index stands for the       *)
(* memory that follows the array, which the index reads and writes when    *)
(* the access does not fault.                                              *)

\* time_wheel(): cur_slot 0, every slot null
tw_init ==
  [slots |-> [i \in {} |-> NULL],
   cur_slot |-> 0,
   rotation |-> [h \in Ids |-> 0],
   time_slot |-> [h \in Ids |-> 0],
   next |-> [h \in Ids |-> NULL],
   prev |-> [h \in Ids |-> NULL],
   mem |-> [h \in Ids |-> "unused"],
   status |-> "ok"]

\* slots[ts] read
tw_slot(w, ts) == IF ts \in DOMAIN w.slots THEN w.slots[ts] ELSE NULL

\* slots[ts] = p
tw_set_slot(w, ts, p) ==
  [w EXCEPT !.slots = [i \in (IF p = NULL THEN DOMAIN w.slots \ {ts}
                                          ELSE DOMAIN w.slots \cup {ts}) |->
                         IF i = ts THEN p ELSE w.slots[i]]]

\* new tw_timer(rot, ts); the host sets cb_func on the returned timer
tw_new_timer(w, h, rot, ts) ==
  [w EXCEPT !.mem[h] = "live", !.rotation[h] = rot, !.time_slot[h] = ts,
            !.next[h] = NULL, !.prev[h] = NULL]

\* delete timer
tw_free(w, h) ==
  [w EXCEPT !.mem[h] = "freed", !.rotation[h] = 0, !.time_slot[h] = 0,
            !.next[h] = NULL, !.prev[h] = NULL]

\* ticks of add_timer: 1 when timeout < SI, else timeout / SI
tw_ticks(timeout) == IF timeout < SI THEN 1 ELSE timeout \div SI

\* int ts = (cur_slot + (ticks % N))
tw_target(w, tks) == w.cur_slot + (tks % N)

\* the linking of add_timer: the new timer becomes the head of bucket ts
tw_link(w, timer, ts) ==
  IF tw_slot(w, ts) = NULL
    THEN tw_set_slot(w, ts, timer)
    ELSE tw_set_slot([w EXCEPT !.next[timer] = tw_slot(w, ts),
                               !.prev[tw_slot(w, ts)] = timer], ts, timer)

\* variant: no timeout is turned away
tw_rejects_m(timeout) == FALSE

\* if(timeout < 0) return nullptr
tw_rejects(timeout) == timeout < 0

\* add_timer(timeout); h is the object new returns
tw_add_timer(w, timeout, h) ==
  IF tw_rejects(timeout) THEN [q |-> w, ret |-> NULL]
  ELSE LET tks == tw_ticks(timeout)
           rotation == tks \div N
           ts == tw_target(w, tks)
       IN [q |-> tw_link(tw_new_timer(w, h, rotation, ts), h, ts), ret |-> h]

\* del_timer(timer)
tw_del_timer(w, timer) ==
  IF timer = NULL THEN w
  ELSE LET ts == w.time_slot[timer]
           nx == w.next[timer]
           pv == w.prev[timer]
       IN IF timer = tw_slot(w, ts)
            THEN LET w1 == tw_set_slot(w, ts, nx)
                     w2 == IF nx # NULL THEN [w1 EXCEPT !.prev[nx] = NULL] ELSE w1
                 IN tw_free(w2, timer)
            ELSE LET w1 == [w EXCEPT !.next[pv] = nx]
                     w2 == IF nx # NULL THEN [w1 EXCEPT !.prev[nx] = pv] ELSE w1
                 IN tw_free(w2, timer)

\* variant: the last revolution is not waited for
tw_waits_m(w, tmp) == w.rotation[tmp] > 1

\* the test of tick: tmp->rotation > 0
tw_waits(w, tmp) == w.rotation[tmp] > 0

\* the else branch of tick: unlink tmp from bucket cur_slot and delete it;
\* nxt is the timer the walk continues with
tw_remove(w, tmp) ==
  LET cs == w.cur_slot
      nx == w.next[tmp]
      pv == w.prev[tmp]
  IN IF tmp = tw_slot(w, cs)
       THEN LET w1 == tw_free(tw_set_slot(w, cs, nx), tmp)
                w2 == IF nx # NULL THEN [w1 EXCEPT !.prev[nx] = NULL] ELSE w1
            IN [q |-> w2, nxt |-> nx]
       ELSE LET w1 == [w EXCEPT !.next[pv] = nx]
                w2 == IF nx # NULL THEN [w1 EXCEPT !.prev[nx] = pv] ELSE w1
            IN [q |-> tw_free(w2, tmp), nxt |-> nx]

RECURSIVE tw_tick_loop(_, _, _)
\* while(tmp) of tick
tw_tick_loop(w, tmp, log) ==
  IF tmp = NULL THEN [q |-> w, log |-> log]
  ELSE IF tw_waits(w, tmp)
    THEN tw_tick_loop([w EXCEPT !.rotation[tmp] = @ - 1], w.next[tmp], log)
    ELSE LET r == tw_remove(w, tmp) IN
      tw_tick_loop(r.q, r.nxt,
                   Append(log, Entry(tmp, w.rotation[tmp], w.time_slot[tmp])))

\* tick(): the bucket of cur_slot, then cur_slot = ++cur_slot % N
tw_tick(w) ==
  LET r == tw_tick_loop(w, tw_slot(w, w.cur_slot), <<>>) IN
    [q |-> [r.q EXCEPT !.cur_slot = (w.cur_slot + 1) % N], log |-> r.log]

\* the timers linked from the head of bucket ts, in order
RECURSIVE tw_chain(_, _, _)
tw_chain(w, h, fuel) ==
  IF h = NULL \/ fuel = 0 THEN <<>> ELSE <<h>> \o tw_chain(w, w.next[h], fuel - 1)
tw_bucket(w, ts) == tw_chain(w, tw_slot(w, ts), MaxIds + 1)

(***************************************************************************)
(*                               actions                                   *)
(***************************************************************************)

Log(log) ==
  /\ fired' = log
  /\ invoked' = [h \in Ids |-> invoked[h] + Count(log, h)]

NoLog == fired' = <<>> /\ invoked' = invoked

\* host: t = new util_timer; t->expire = e; add_timer(t)   -- or add_timer(nullptr)
LstAdd(limit, maxe) ==
  /\ queue = "lst" /\ lst.status = "ok"
  /\ \/ /\ CanCreate(lst.mem, limit)
        /\ \E e \in 1..maxe :
             LET h == NewId(lst.mem) IN
               /\ lst' = lst_add_timer(lst_new_timer(lst, h, e), h)
               /\ call' = Call("add_timer", h, 0, "ok")
     \/ /\ lst' = lst_add_timer(lst, NULL)
        /\ call' = Call("add_timer", NULL, 0, "ok")
  /\ NoLog
  /\ UNCHANGED <<queue, heap, tw, cancelled, sched, ticks>>

LstAddTimer == LstAdd(MaxTimers, MaxTime)

\* host: t->expire = e (not earlier than before); adjust_timer(t)   -- or adjust_timer(nullptr)
LstAdjust(maxe) ==
  /\ queue = "lst" /\ lst.status = "ok"
  /\ \/ \E h \in Ids : \E e \in 1..maxe :
          /\ lst.mem[h] = "live"
          /\ e >= lst.expire[h]
          /\ lst' = lst_adjust_timer([lst EXCEPT !.expire[h] = e], h)
          /\ call' = Call("adjust_timer", h, lst.expire[h], "ok")
     \/ /\ lst' = lst_adjust_timer(lst, NULL)
        /\ call' = Call("adjust_timer", NULL, 0, "ok")
  /\ NoLog
  /\ UNCHANGED <<queue, heap, tw, cancelled, sched, ticks>>

LstAdjustTimer == LstAdjust(MaxTime)

\* host: del_timer(t) for a timer of the list   -- or del_timer(nullptr)
LstDelTimer ==
  /\ queue = "lst" /\ lst.status = "ok"
  /\ \/ \E h \in Ids :
          /\ lst.mem[h] = "live"
          /\ lst' = lst_del_timer(lst, h)
          /\ cancelled' = cancelled \cup {h}
          /\ call' = Call("del_timer", h, lst.expire[h], "ok")
     \/ /\ lst' = lst_del_timer(lst, NULL)
        /\ cancelled' = cancelled
        /\ call' = Call("del_timer", NULL, 0, "ok")
  /\ NoLog
  /\ UNCHANGED <<queue, heap, tw, sched, ticks>>

\* heartbeat: tick() reads time(NULL), the wall clock
LstTickAt(maxt) ==
  /\ queue = "lst" /\ lst.status = "ok"
  /\ \E cur \in 0..maxt :
       /\ LET r == lst_tick(lst, cur) IN lst' = r.q /\ Log(r.log)
       /\ call' = Call("tick", NULL, cur, "ok")
  /\ UNCHANGED <<queue, heap, tw, cancelled, sched, ticks>>

LstTick == LstTickAt(MaxTime)

\* host: t = new heap_timer(delay); t->cb_func = f; add_timer(t)
HeapAdd(limit, maxe) ==
  /\ queue = "heap" /\ heap.status = "ok"
  /\ CanCreate(heap.mem, limit)
  /\ \E e \in 1..maxe :
       LET h == NewId(heap.mem)
           r == heap_add_timer(heap_new_timer(heap, h, e), h)
       IN /\ heap' = r.q
          /\ call' = Call("add_timer", h, 0, r.ret)
  /\ NoLog
  /\ UNCHANGED <<queue, lst, tw, cancelled, sched, ticks>>

\* host: add_timer(nullptr)
HeapAddNull ==
  /\ queue = "heap" /\ heap.status = "ok"
  /\ LET r == heap_add_timer(heap, NULL) IN
       /\ heap' = r.q
       /\ call' = Call("add_timer", NULL, 0, r.ret)
  /\ NoLog
  /\ UNCHANGED <<queue, lst, tw, cancelled, sched, ticks>>

HeapAddTimer == HeapAdd(MaxTimers, MaxTime) \/ HeapAddNull

\* host: del_timer(t) for a record still in the heap   -- or del_timer(nullptr)
HeapDelTimer ==
  /\ queue = "heap" /\ heap.status = "ok"
  /\ \/ \E h \in Ids :
          /\ heap.mem[h] = "live"
          /\ heap' = heap_del_timer(heap, h)
          /\ cancelled' = cancelled \cup {h}
          /\ call' = Call("del_timer", h, 0, "ok")
     \/ /\ heap' = heap_del_timer(heap, NULL)
        /\ cancelled' = cancelled
        /\ call' = Call("del_timer", NULL, 0, "ok")
  /\ NoLog
  /\ UNCHANGED <<queue, lst, tw, sched, ticks>>

\* host: pop_timer()
HeapPopTimer ==
  /\ queue = "heap" /\ heap.status = "ok"
  /\ heap' = heap_pop_timer(heap)
  /\ call' = Call("pop_timer", NULL, 0, "ok")
  /\ NoLog
  /\ UNCHANGED <<queue, lst, tw, cancelled, sched, ticks>>

\* heartbeat: tick() reads time(NULL), the wall clock
HeapTickAt(maxt) ==
  /\ queue = "heap" /\ heap.status = "ok"
  /\ \E cur \in 0..maxt :
       /\ LET r == heap_tick(heap, cur) IN heap' = r.q /\ Log(r.log)
       /\ call' = Call("tick", NULL, cur, "ok")
  /\ UNCHANGED <<queue, lst, tw, cancelled, sched, ticks>>

HeapTick == HeapTickAt(MaxTime)

\* an index past the end of slots[] is undefined behaviour: the access faults,
\* or it lands in the memory behind the array
Outcomes(ts) == IF ts >= N THEN {"fault", "past"} ELSE {"ok"}

\* host: t = add_timer(timeout); if(t) t->cb_func = f
TwAddTimer ==
  /\ queue = "tw" /\ tw.status = "ok"
  /\ CanCreate(tw.mem, MaxTimers)
  /\ \E timeout \in Timeouts :
       LET h == NewId(tw.mem)
           r == tw_add_timer(tw, timeout, h)
       IN \E o \in (IF r.ret = NULL THEN {"ok"} ELSE Outcomes(r.q.time_slot[h])) :
            /\ tw' = IF o = "fault"
                       THEN [tw_new_timer(tw, h, r.q.rotation[h], r.q.time_slot[h])
                               EXCEPT !.status = "crashed"]
                       ELSE r.q
            /\ call' = Call("add_timer", r.ret, timeout, IF o = "fault" THEN "crash" ELSE "ok")
            /\ sched' = IF r.ret = NULL THEN sched
                        ELSE [sched EXCEPT ![h] = [at |-> ticks, timeout |-> timeout]]
  /\ NoLog
  /\ UNCHANGED <<queue, lst, heap, cancelled, ticks>>

\* host: del_timer(t) for a timer of the wheel   -- or del_timer(nullptr)
TwDelTimer ==
  /\ queue = "tw" /\ tw.status = "ok"
  /\ \/ \E h \in Ids :
          /\ tw.mem[h] = "live"
          /\ \E o \in Outcomes(tw.time_slot[h]) :
               /\ tw' = IF o = "fault" THEN [tw EXCEPT !.status = "crashed"]
                        ELSE tw_del_timer(tw, h)
               /\ call' = Call("del_timer", h, 0, IF o = "fault" THEN "crash" ELSE "ok")
          /\ cancelled' = cancelled \cup {h}
     \/ /\ tw' = tw_del_timer(tw, NULL)
        /\ cancelled' = cancelled
        /\ call' = Call("del_timer", NULL, 0, "ok")
  /\ NoLog
  /\ UNCHANGED <<queue, lst, heap, sched, ticks>>

\* heartbeat: tick(), once per SI
TwTick ==
  /\ queue = "tw" /\ tw.status = "ok"
  /\ ticks < MaxTicks
  /\ ticks' = ticks + 1
  /\ LET r == tw_tick(tw) IN tw' = r.q /\ Log(r.log)
  /\ call' = Call("tick", NULL, tw.cur_slot, "ok")
  /\ UNCHANGED <<queue, lst, heap, cancelled, sched>>

InitCommon ==
  /\ lst = lst_init
  /\ heap \in {heap_init(cap) : cap \in IF queue = "heap" THEN 1..MaxCap ELSE {1}}
  /\ tw = tw_init
  /\ call = Call("init", NULL, 0, "ok")
  /\ fired = <<>>
  /\ invoked = [h \in Ids |-> 0]
  /\ cancelled = {}
  /\ sched = [h \in Ids |-> [at |-> 0, timeout |-> 0]]
  /\ ticks = 0

Init == queue \in {"lst", "heap", "tw"} /\ InitCommon

Next ==
  \/ LstAddTimer \/ LstAdjustTimer \/ LstDelTimer \/ LstTick
  \/ HeapAddTimer \/ HeapDelTimer \/ HeapPopTimer \/ HeapTick
  \/ TwAddTimer \/ TwDelTimer \/ TwTick

Spec == Init /\ [][Next]_vars

\* the heap alone with more records: schedule, pop and tick
InitDeep == queue = "heap" /\ InitCommon
NextDeep == HeapAdd(MaxDeep, DeepTime) \/ HeapPopTimer \/ HeapTickAt(DeepTime)
SpecDeep == InitDeep /\ [][NextDeep]_vars


\* the list alone with more records
InitList == queue = "lst" /\ InitCommon
NextList == LstAdd(MaxList, ListTime) \/ LstAdjust(ListTime) \/ LstDelTimer \/ LstTickAt(ListTime)
SpecList == InitList /\ [][NextList]_vars

(***************************************************************************)
(* A host whose callbacks call add_timer on the heap that is firing them.  *)
(* plan gives, for each callback the tick invokes in turn, what it does: 0 *)
(* returns at once, e > 0 creates a heap_timer, sets its expire to e and   *)
(* its cb_func, and calls add_timer with it.                               *)
(***************************************************************************)

\* the callback of the record at the root runs with choice e
heap_callback(hp, e) ==
  IF e > 0 /\ CanCreate(hp.mem, MaxTimers)
    THEN heap_add_timer(heap_new_timer(hp, NewId(hp.mem), e), NewId(hp.mem)).q
    ELSE hp

RECURSIVE heap_tick_loop_re(_, _, _, _, _)
\* while(!empty()) of tick: the callback runs between the test and pop_timer()
heap_tick_loop_re(hp, cur, tmp, log, plan) ==
  IF heap_empty(hp) \/ tmp = NULL THEN [q |-> hp, log |-> log]
  ELSE IF heap_not_due(hp, tmp, cur) THEN [q |-> hp, log |-> log]
  ELSE LET runs == hp.cb_func[hp.array[0]]
           h1 == IF runs /\ plan # <<>> THEN heap_callback(hp, Head(plan)) ELSE hp
           h2 == heap_pop_timer(h1)
           rest == IF runs /\ plan # <<>> THEN Tail(plan) ELSE plan
       IN heap_tick_loop_re(h2, cur, h2.array[0], heap_fire(hp, log), rest)

\* tick() at time cur with re-entering callbacks
heap_tick_re(hp, cur, plan) == heap_tick_loop_re(hp, cur, hp.array[0], <<>>, plan)

\* heartbeat: tick(); the callbacks it invokes may schedule new timers
HeapTickRe ==
  /\ queue = "heap" /\ heap.status = "ok"
  /\ \E cur \in 0..MaxTime : \E plan \in [1..MaxCalls -> 0..MaxTime] :
       /\ LET r == heap_tick_re(heap, cur, plan) IN heap' = r.q /\ Log(r.log)
       /\ call' = Call("tick", NULL, cur, "ok")
  /\ UNCHANGED <<queue, lst, tw, cancelled, sched, ticks>>

NextReentrant == HeapAdd(MaxTimers, MaxTime) \/ HeapDelTimer \/ HeapTickRe
SpecReentrant == InitDeep /\ [][NextReentrant]_vars

(***************************************************************************)
(* The heap built by time_heap(init_array, size, capacity).  The seed is   *)
(* the timers 1..size, init_array[i] being timer i + 1, with any expiries. *)
(***************************************************************************)

\* variant: only the root is percolated down
heap_build_from_m(size) == 0

\* the first index of the build loop: (cur_size - 1) / 2
heap_build_from(size) == (size - 1) \div 2

RECURSIVE heap_build_loop(_, _)
\* for(i = (cur_size-1)/2; i >= 0; i--) percolate_down(i)
heap_build_loop(hp, i) ==
  IF i < 0 THEN hp ELSE heap_build_loop(heap_percolate_down(hp, i), i - 1)

\* time_heap(init_array, size, capacity) on the seed timers with expiries exp
heap_build(exp, size, cap) ==
  LET h0 == [heap_init(cap) EXCEPT
               !.cur_size = size,
               !.expire = [h \in Ids |-> IF h <= size THEN exp[h] ELSE 0],
               !.cb_func = [h \in Ids |-> h <= size],
               !.mem = [h \in Ids |-> IF h <= size THEN "live" ELSE "unused"]]
  IN IF cap < size THEN [h0 EXCEPT !.status = "throw"]
     ELSE IF size = 0 THEN h0
     ELSE heap_build_loop(
            [h0 EXCEPT !.array = [i \in 0..(cap - 1) |-> IF i < size THEN i + 1 ELSE NULL]],
            heap_build_from(size))

InitBulk ==
  /\ queue = "heap"
  /\ lst = lst_init /\ tw = tw_init
  /\ \E size \in 0..MaxSeed : \E cap \in {c \in (size - 1)..(size + 1) : c >= 1} :
     \E exp \in [1..size -> 1..MaxTime] :
       /\ heap = heap_build(exp, size, cap)
       /\ call = Call("time_heap", NULL, size, heap.status)
  /\ fired = <<>>
  /\ invoked = [h \in Ids |-> 0]
  /\ cancelled = {}
  /\ sched = [h \in Ids |-> [at |-> 0, timeout |-> 0]]
  /\ ticks = 0

NextBulk == HeapAdd(MaxSeed, MaxTime) \/ HeapPopTimer \/ HeapTick
SpecBulk == InitBulk /\ [][NextBulk]_vars

(***************************************************************************)
(* A heap built by time_heap(0).  Its array has no slot and resize() makes *)
(* it 2 * 0 = 0 slots again, so array[0] is undefined behaviour: the       *)
(* access faults, or it reads or writes the memory behind the array.  An   *)
(* entry of array at an index >= capacity stands for that memory.  The     *)
(* model follows the program up to the return of the call that wrote there *)
(* (status "undefined") or to the fault ("crashed").                       *)
(***************************************************************************)

\* host: add_timer(t) on a heap whose capacity is 0
HeapAddPast ==
  /\ queue = "heap" /\ heap.status = "ok" /\ heap.capacity = 0
  /\ CanCreate(heap.mem, MaxTimers)
  /\ \E e \in 1..MaxTime : \E o \in {"fault", "past"} :
       LET h == NewId(heap.mem)
           h1 == heap_resize(heap_new_timer(heap, h, e))
           hole == h1.cur_size
           h2 == [h1 EXCEPT !.cur_size = hole + 1]
       IN /\ heap' = IF o = "fault" THEN [h2 EXCEPT !.status = "crashed"]
                     ELSE [h2 EXCEPT !.array = (hole :> h), !.status = "undefined"]
          /\ call' = Call("add_timer", h, 0, IF o = "fault" THEN "crash" ELSE "ok")
  /\ NoLog
  /\ UNCHANGED <<queue, lst, tw, cancelled, sched, ticks>>

\* heartbeat on a heap whose capacity is 0: tmp = array[0] is read before the
\* loop test; the heap is empty, so the value read is not used
HeapTickPast ==
  /\ queue = "heap" /\ heap.status = "ok" /\ heap.capacity = 0
  /\ \E cur \in 0..MaxTime : \E o \in {"fault", "past"} :
       /\ heap' = IF o = "fault" THEN [heap EXCEPT !.status = "crashed"] ELSE heap
       /\ call' = Call("tick", NULL, cur, IF o = "fault" THEN "crash" ELSE "ok")
  /\ NoLog
  /\ UNCHANGED <<queue, lst, tw, cancelled, sched, ticks>>

InitZero ==
  /\ queue = "heap"
  /\ lst = lst_init /\ tw = tw_init
  /\ heap \in {heap_init(cap) : cap \in 0..MaxCap}
  /\ call = Call("init", NULL, 0, "ok")
  /\ fired = <<>>
  /\ invoked = [h \in Ids |-> 0]
  /\ cancelled = {}
  /\ sched = [h \in Ids |-> [at |-> 0, timeout |-> 0]]
  /\ ticks = 0

NextZero ==
  \/ heap.capacity > 0 /\ (HeapAddTimer \/ HeapDelTimer \/ HeapPopTimer \/ HeapTick)
  \/ heap.capacity = 0 /\ (HeapAddNull \/ HeapPopTimer)
  \/ HeapAddPast \/ HeapTickPast

SpecZero == InitZero /\ [][NextZero]_vars

(***************************************************************************)
(* A host that calls del_timer with a pointer to a timer the queue has     *)
(* already deleted.  The call reads the freed object: the values it gets   *)
(* for the fields are indeterminate (pv, nx, ts below), a null among them  *)
(* makes the next dereference fault, and the call ends with a second       *)
(* delete of the same object.  The model follows the program up to the     *)
(* return of that call (status "undefined") or to the fault ("crashed").   *)
(***************************************************************************)

\* null or the address of a timer object, deleted or not
Garbage(mem) == {NULL} \cup {h \in Ids : mem[h] # "unused"}

\* what the call wrote into deleted objects is not kept either
lst_scrub(l) ==
  [l EXCEPT !.expire = [h \in Ids |-> IF l.mem[h] = "live" THEN l.expire[h] ELSE 0],
            !.prev = [h \in Ids |-> IF l.mem[h] = "live" THEN l.prev[h] ELSE NULL],
            !.next = [h \in Ids |-> IF l.mem[h] = "live" THEN l.next[h] ELSE NULL]]

tw_scrub(w) ==
  [w EXCEPT !.time_slot = [h \in Ids |-> IF w.mem[h] = "live" THEN w.time_slot[h] ELSE 0],
            !.prev = [h \in Ids |-> IF w.mem[h] = "live" THEN w.prev[h] ELSE NULL],
            !.next = [h \in Ids |-> IF w.mem[h] = "live" THEN w.next[h] ELSE NULL]]

LstDelStale ==
  /\ queue = "lst" /\ lst.status = "ok"
  /\ \E h \in Ids : \E pv \in Garbage(lst.mem) : \E nx \in Garbage(lst.mem) :
       LET l0 == [lst EXCEPT !.prev[h] = pv, !.next[h] = nx]
           solo == h = lst.head /\ h = lst.tail
           faults == /\ ~solo
                     /\ \/ h = lst.head /\ nx = NULL
                        \/ h # lst.head /\ h = lst.tail /\ pv = NULL
                        \/ h # lst.head /\ h # lst.tail /\ (pv = NULL \/ nx = NULL)
       IN /\ lst.mem[h] = "freed"
          /\ lst' = IF faults THEN [lst EXCEPT !.status = "crashed"]
                    ELSE [lst_scrub(lst_del_timer(l0, h)) EXCEPT !.status = "undefined"]
          /\ call' = Call("del_timer", h, 0, IF faults THEN "crash" ELSE "ok")
  /\ NoLog
  /\ UNCHANGED <<queue, heap, tw, cancelled, sched, ticks>>

HeapDelStale ==
  /\ queue = "heap" /\ heap.status = "ok"
  /\ \E h \in Ids :
       /\ heap.mem[h] = "freed"
       /\ heap' = [heap_free(heap_del_timer(heap, h), h) EXCEPT !.status = "undefined"]
       /\ call' = Call("del_timer", h, 0, "ok")
  /\ NoLog
  /\ UNCHANGED <<queue, lst, tw, cancelled, sched, ticks>>

TwDelStale ==
  /\ queue = "tw" /\ tw.status = "ok"
  /\ \E h \in Ids : \E pv \in Garbage(tw.mem) : \E nx \in Garbage(tw.mem) :
     \E ts \in {tw.cur_slot} :   \* no slot holds a deleted timer: any index takes the same branch
       LET w0 == [tw EXCEPT !.time_slot[h] = ts, !.prev[h] = pv, !.next[h] = nx]
           faults == h # tw_slot(tw, ts) /\ pv = NULL
       IN /\ tw.mem[h] = "freed"
          /\ tw' = IF faults THEN [tw EXCEPT !.status = "crashed"]
                   ELSE [tw_scrub(tw_del_timer(w0, h)) EXCEPT !.status = "undefined"]
          /\ call' = Call("del_timer", h, 0, IF faults THEN "crash" ELSE "ok")
  /\ NoLog
  /\ UNCHANGED <<queue, lst, heap, cancelled, sched, ticks>>

NextStale == LstDelStale \/ HeapDelStale \/ TwDelStale

\* the three queues with a host that also cancels through stale pointers
SpecStale == Init /\ [][Next \/ NextStale]_vars

(***************************************************************************)
(*                              properties                                 *)
(***************************************************************************)

Max(a, b) == IF a >= b THEN a ELSE b

LstIn(l, h) == \E i \in 1..Len(lst_seq(l)) : lst_seq(l)[i] = h
HeapIn(hp, h) == \E i \in 0..(hp.cur_size - 1) : hp.array[i] = h
TwIn(w, h, ts) == \E i \in 1..Len(tw_bucket(w, ts)) : tw_bucket(w, ts)[i] = h

\* C1: in the heap, every record at an index i with 0 < i < cur_size has an
\* expire not smaller than that of its parent at (i-1)/2, tombstones included
C1_HeapOrder ==
  \A i \in 1..(heap.cur_size - 1) :
     heap.expire[heap.array[i]] >= heap.expire[heap.array[(i - 1) \div 2]]

\* a tick has fired the root and left a tombstone below a later root
C1_Witness ==
  /\ queue = "heap" /\ call.op = "tick" /\ Len(fired) >= 1
  /\ heap.cur_size >= 2
  /\ \E i \in 1..(heap.cur_size - 1) :
       /\ ~heap.cb_func[heap.array[i]]
       /\ heap.expire[heap.array[i]] > heap.expire[heap.array[0]]

\* C2: in the list, with adjust_timer only called after raising expire, every
\* adjacent pair (a, b) from head to tail has a.expire <= b.expire
C2_LstSorted ==
  \A i \in 1..(Len(lst_seq(lst)) - 1) :
     lst.expire[lst_seq(lst)[i]] <= lst.expire[lst_seq(lst)[i + 1]]

\* adjust_timer has just moved a timer from before a record to the tail
C2_Witness ==
  /\ queue = "lst" /\ call.op = "adjust_timer" /\ call.h # NULL
  /\ Len(lst_seq(lst)) = 3
  /\ lst.tail = call.h
  /\ \E g \in Ids : LstIn(lst, g) /\ call.t < lst.expire[g]
                    /\ lst.expire[g] < lst.expire[call.h]

\* C3: add_timer(t) at current slot c makes a record with
\* time_slot = (c + max(1, t/SI)) mod N and rotation = max(1, t/SI) / N,
\* linked into bucket slots[time_slot]
C3_WheelSlot ==
  (queue = "tw" /\ call.op = "add_timer" /\ call.h # NULL) =>
     LET k == Max(1, call.t \div SI) IN
       /\ tw.time_slot[call.h] = (tw.cur_slot + k) % N
       /\ tw.rotation[call.h] = k \div N
       /\ tw.time_slot[call.h] \in 0..(N - 1)
       /\ TwIn(tw, call.h, tw.time_slot[call.h])

\* C4: a wheel timer scheduled with timeout t, k = max(1, t/SI), has not fired
\* during the first k-1 ticks after it and has fired exactly once when k ticks
\* have been made
C4_WheelFiresAtK ==
  \A h \in Ids :
     (queue = "tw" /\ tw.mem[h] # "unused" /\ h \notin cancelled) =>
        LET k == Max(1, sched[h].timeout \div SI)
            age == ticks - sched[h].at
        IN /\ age <= k - 1 => invoked[h] = 0
           /\ age >= k => invoked[h] = 1

\* C5: the callbacks one heap tick invokes are in non-decreasing order of expire
C5_FiringOrder ==
  (queue = "heap" /\ call.op = "tick") =>
     \A i \in 1..Len(fired) : \A j \in 1..Len(fired) :
        i < j => fired[i].key <= fired[j].key

\* records scheduled with expiries 4, 1, 3, 2 fire in one tick in the order 1, 2, 3, 4
C5_Witness ==
  /\ queue = "heap" /\ call.op = "tick"
  /\ fired = <<Entry(2, 1, 0), Entry(4, 2, 0), Entry(3, 3, 0), Entry(1, 4, 0)>>

\* C6: a tick invokes no callback that is not due: in the list and the heap
\* the record's expire is <= the time of the tick, in the wheel the record is
\* in the bucket of cur_slot with rotation 0
C6_NoEarlyFire ==
  call.op = "tick" =>
     \A i \in 1..Len(fired) :
        /\ queue \in {"lst", "heap"} => fired[i].key <= call.t
        /\ queue = "tw" => fired[i].key = 0 /\ fired[i].slot = call.t

\* a list tick has fired a record and stopped at one that is not due
C6_Witness ==
  /\ queue = "lst" /\ call.op = "tick" /\ Len(fired) >= 1
  /\ lst.head # NULL /\ lst.expire[lst.head] > call.t

\* the same for the heap and the wheel
C6_WitnessHeap ==
  /\ queue = "heap" /\ call.op = "tick" /\ Len(fired) >= 1
  /\ heap.cur_size >= 1 /\ heap.expire[heap.array[0]] > call.t
C6_WitnessTw ==
  /\ queue = "tw" /\ call.op = "tick" /\ Len(fired) >= 1
  /\ \E h \in Ids : tw.mem[h] = "live" /\ tw.time_slot[h] = call.t

\* the records of the list or heap at the start of a tick at time cur
Queued(h) == IF queue = "lst" THEN LstIn(lst, h) ELSE HeapIn(heap, h)
QueuedAfter(h) == IF queue = "lst" THEN LstIn(lst', h) ELSE HeapIn(heap', h)
ExpireOf(h) == IF queue = "lst" THEN lst.expire[h] ELSE heap.expire[h]
ExpireAfter(h) == IF queue = "lst" THEN lst'.expire[h] ELSE heap'.expire[h]
HasCallback(h) == IF queue = "lst" THEN TRUE ELSE heap.cb_func[h]
Deleted(h) == IF queue = "lst" THEN lst'.mem[h] = "freed" ELSE heap'.mem[h] = "freed"

\* a step that is a tick of the list or the heap
ListOrHeapTick == queue \in {"lst", "heap"} /\ call'.op = "tick"

\* C7: a list or heap tick at time cur removes and deletes every record that was
\* queued with expire <= cur, invokes its callback exactly once if it has one,
\* and leaves no record with expire <= cur, tombstones included
C7_TickDrainsDue ==
  [][ListOrHeapTick =>
       /\ \A h \in Ids :
            (Queued(h) /\ ExpireOf(h) <= call'.t) =>
               /\ ~QueuedAfter(h)
               /\ Deleted(h)
               /\ Count(fired', h) = (IF HasCallback(h) THEN 1 ELSE 0)
       /\ \A h \in Ids : QueuedAfter(h) => ExpireAfter(h) > call'.t]_vars

\* a heap tick has fired a record, reclaimed a tombstone and left a later record
C7_Witness ==
  /\ queue = "heap" /\ call.op = "tick" /\ Len(fired) >= 1
  /\ \E h \in cancelled : heap.mem[h] = "freed"
  /\ heap.cur_size >= 1

\* C8: after del_timer(h) on a scheduled timer that has not fired, no tick
\* invokes the callback of h
C8_CancelledNeverFires ==
  \A h \in cancelled : invoked[h] = 0 /\ Count(fired, h) = 0

\* a wheel timer was cancelled and the tick it was due at has fired its
\* bucket neighbour
C8_Witness ==
  /\ queue = "tw" /\ call.op = "tick" /\ Len(fired) >= 1
  /\ \E h \in cancelled :
       /\ sched[h].at = sched[fired[1].h].at
       /\ sched[h].timeout = sched[fired[1].h].timeout

\* the same for a heap tombstone that a tick has popped, and for the list
C8_WitnessHeap ==
  /\ queue = "heap" /\ call.op = "tick" /\ Len(fired) >= 1
  /\ \E h \in cancelled : heap.mem[h] = "freed"
C8_WitnessLst ==
  /\ queue = "lst" /\ call.op = "tick" /\ Len(fired) >= 2 /\ cancelled # {}

\* what of a queue a host can see: its links and its live records
LstView(l) ==
  [head |-> l.head, tail |-> l.tail, seq |-> lst_seq(l),
   nodes |-> {<<h, l.expire[h], l.prev[h], l.next[h]>> : h \in {g \in Ids : l.mem[g] = "live"}}]
HeapView(hp) ==
  [size |-> hp.cur_size, capacity |-> hp.capacity, seq |-> heap_seq(hp),
   nodes |-> {<<h, hp.expire[h], hp.cb_func[h]>> : h \in {g \in Ids : hp.mem[g] = "live"}}]
TwView(w) ==
  [slots |-> w.slots, cur_slot |-> w.cur_slot,
   nodes |-> {<<h, w.rotation[h], w.time_slot[h], w.prev[h], w.next[h]>> :
                h \in {g \in Ids : w.mem[g] = "live"}}]
SameQueues ==
  /\ LstView(lst') = LstView(lst)
  /\ HeapView(heap') = HeapView(heap)
  /\ TwView(tw') = TwView(tw)

\* h has been deleted by the queue, or has already been cancelled
Gone(h) ==
  \/ h \in cancelled
  \/ queue = "lst" /\ lst.mem[h] = "freed"
  \/ queue = "heap" /\ heap.mem[h] = "freed"
  \/ queue = "tw" /\ tw.mem[h] = "freed"

\* C9: del_timer(h) on a timer that has already fired or been cancelled
\* returns normally and leaves the queue's links and records as they were
C9_StaleDelIsNoop ==
  [][(call'.op = "del_timer" /\ call'.h # NULL /\ Gone(call'.h)) =>
        (SameQueues /\ call'.ret = "ok")]_vars

\* a step that passes a null timer pointer to add_timer, del_timer or adjust_timer
NullCall ==
  /\ call'.h = NULL
  /\ call'.op \in {"add_timer", "del_timer", "adjust_timer"}
  /\ ~(queue = "tw" /\ call'.op = "add_timer")

\* C10 as stated: a null timer passed to add_timer, del_timer or adjust_timer of
\* any queue returns normally, throws nothing and leaves the queue unchanged
C10_NullIsNoop ==
  [][NullCall => (call'.ret = "ok" /\ UNCHANGED <<lst, heap, tw>>)]_vars

\* C10 amended: such a call leaves the queue unchanged; it returns normally,
\* except add_timer of the heap, which throws std::exception
C10_NullLeavesQueue ==
  [][NullCall =>
       /\ UNCHANGED <<lst, heap, tw>>
       /\ call'.ret = (IF queue = "heap" /\ call'.op = "add_timer" THEN "throw" ELSE "ok")]_vars

\* add_timer(nullptr) has thrown on a heap that holds records
C10_Witness ==
  /\ queue = "heap" /\ call.op = "add_timer" /\ call.h = NULL /\ call.ret = "throw"
  /\ heap.cur_size >= 2

\* the same for the null calls that return
C10_WitnessLst ==
  /\ queue = "lst" /\ call.op = "adjust_timer" /\ call.h = NULL /\ call.ret = "ok"
  /\ Len(lst_seq(lst)) >= 2

\* a step that is add_timer(timeout) of the wheel
TwAddCall == queue = "tw" /\ call'.op = "add_timer"

\* C11 as stated: add_timer(timeout) with timeout <= 0 returns the null handle,
\* creates no record and leaves every bucket and cur_slot unchanged
C11_NonPositiveRejected ==
  [][(TwAddCall /\ call'.t <= 0) => (call'.h = NULL /\ tw' = tw)]_vars

\* C11 amended: add_timer(timeout) with timeout < 0 returns the null handle,
\* creates no record and leaves every bucket and cur_slot unchanged;
\* add_timer(0) is accepted and makes a record one tick ahead, as add_timer(SI)
C11_NegativeRejected ==
  [][TwAddCall =>
       /\ call'.t < 0 => (call'.h = NULL /\ tw' = tw)
       /\ call'.t = 0 =>
            /\ call'.h # NULL /\ tw.mem[call'.h] = "unused"
            /\ tw'.rotation[call'.h] = 0
            /\ tw'.time_slot[call'.h] = tw.cur_slot + 1]_vars

\* add_timer(-1) has been turned away by a wheel that holds a timer and has ticked
C11_Witness ==
  /\ queue = "tw" /\ call.op = "add_timer" /\ call.t < 0 /\ call.h = NULL
  /\ tw.cur_slot > 0
  /\ \E h \in Ids : tw.mem[h] = "live"

\* add_timer(0) has made a record
C11_WitnessZero ==
  /\ queue = "tw" /\ call.op = "add_timer" /\ call.t = 0 /\ call.h # NULL
  /\ tw.mem[call.h] = "live" /\ call.ret = "ok"

\* the records of a heap in the order repeated pop_timer calls remove them
RECURSIVE heap_drain(_)
heap_drain(hp) ==
  IF heap_empty(hp) THEN <<>> ELSE <<hp.array[0]>> \o heap_drain(heap_pop_timer(hp))

\* the records of hp leave it in non-decreasing order of expire, each once
DrainsInOrder(hp) ==
  \A d \in {heap_drain(hp)} :
    /\ Len(d) = hp.cur_size
    /\ Range(d) = {hp.array[i] : i \in 0..(hp.cur_size - 1)}
    /\ \A i \in 1..Len(d) : \A j \in 1..Len(d) :
         i < j => (d[i] # d[j] /\ hp.expire[d[i]] <= hp.expire[d[j]])

\* C12: add_timer on a full heap (cur_size = capacity) doubles capacity once,
\* add_timer on a heap with room leaves capacity alone, and either way every
\* record scheduled before is still in the heap and the records are popped in
\* non-decreasing order of expire
C12_CapacityDoubles ==
  [][(queue = "heap" /\ call'.op = "add_timer" /\ call'.h # NULL) =>
       /\ heap.cur_size = heap.capacity => heap'.capacity = 2 * heap.capacity
       /\ heap.cur_size < heap.capacity => heap'.capacity = heap.capacity
       /\ heap'.cur_size = heap.cur_size + 1
       /\ heap'.cur_size <= heap'.capacity
       /\ DOMAIN heap'.array = 0..(heap'.capacity - 1)
       /\ HeapIn(heap', call'.h)
       /\ \A h \in Ids : HeapIn(heap, h) =>
            (HeapIn(heap', h) /\ heap'.expire[h] = heap.expire[h]
                              /\ heap'.cb_func[h] = heap.cb_func[h])
       /\ DrainsInOrder(heap')]_vars

\* the third add_timer found a full heap of capacity 2 and made it 4; the new
\* record went to the root above a tombstone
C12_Witness ==
  /\ queue = "heap" /\ call.op = "add_timer" /\ call.h # NULL
  /\ heap.capacity = 4 /\ heap.cur_size = 3
  /\ heap.array[0] = call.h
  /\ \E h \in cancelled : HeapIn(heap, h)

\* an add_timer that found room
C12_WitnessRoom ==
  /\ queue = "heap" /\ call.op = "add_timer" /\ call.h # NULL
  /\ heap.capacity = 2 /\ heap.cur_size = 2 /\ call.h = 3

\* head and tail are the first and the last record linked from head
LstEnds(l) ==
  \A s \in {lst_seq(l)} :
    IF s = <<>> THEN l.head = NULL
    ELSE /\ l.head = s[1] /\ l.prev[s[1]] = NULL
         /\ l.tail = s[Len(s)] /\ l.next[s[Len(s)]] = NULL

\* the place of x in the sequence s
Pos(s, x) == CHOOSE i \in 1..Len(s) : s[i] = x

\* C13: after the host raised h's expire and called adjust_timer(h), the list
\* holds the same records as before, each once, h comes after every record whose
\* expire is <= h's new expire, and head and tail are the first and last record
C13_AdjustRepositions ==
  [][(queue = "lst" /\ call'.op = "adjust_timer" /\ call'.h # NULL) =>
       \A h \in {call'.h} : \A s \in {lst_seq(lst')} : \A s0 \in {lst_seq(lst)} :
          /\ Range(s) = Range(s0)
          /\ Len(s) = Len(s0)
          /\ h \in Range(s)
          /\ \A g \in Range(s) \ {h} :
               lst'.expire[g] = lst.expire[g]
               /\ (lst'.expire[g] <= lst'.expire[h] => Pos(s, g) < Pos(s, h))
          /\ LstEnds(lst')]_vars

\* A(expire 2) and B(expire 1) were scheduled in that order, B was raised to 3:
\* adjust_timer(B) has moved B from the head to behind A
C13_Witness ==
  /\ queue = "lst" /\ call.op = "adjust_timer" /\ call.h = 2 /\ call.t = 1
  /\ lst_seq(lst) = <<1, 2>>
  /\ lst.expire[1] = 2 /\ lst.expire[2] = 3
  /\ lst.head = 1 /\ lst.tail = 2

\* the tick between the two expiries has then fired A alone
C13_WitnessTick ==
  /\ queue = "lst" /\ call.op = "tick" /\ call.t = 2
  /\ fired = <<Entry(1, 2, 0)>>
  /\ lst_seq(lst) = <<2>> /\ lst.expire[2] = 3

\* the records two sequences share keep their order, h left aside
SameOrder(s1, s2, h) ==
  \A i \in 1..Len(s1) : \A j \in 1..Len(s1) :
     (i < j /\ s1[i] # h /\ s1[j] # h /\ s1[i] \in Range(s2) /\ s1[j] \in Range(s2))
        => Pos(s2, s1[i]) < Pos(s2, s1[j])

\* the timers a tick fired, in the order it fired them
FiredIds == [i \in 1..Len(fired') |-> fired'[i].h]

\* C14: add_timer puts a record behind every record of the list with the same
\* (or a smaller) expire and ahead of those with a greater one, no call changes
\* the order of the records it does not move, and tick fires from the head in
\* list order: callbacks of equal expire run in the order the records arrived
C14_TiesInArrivalOrder ==
  [][queue = "lst" =>
       \A s1 \in {lst_seq(lst)} : \A s2 \in {lst_seq(lst')} : \A h \in {call'.h} :
          /\ (call'.op = "add_timer" /\ h # NULL) =>
               /\ h \in Range(s2) /\ h \notin Range(s1)
               /\ \A g \in Range(s1) :
                    /\ g \in Range(s2)
                    /\ lst.expire[g] <= lst'.expire[h] => Pos(s2, g) < Pos(s2, h)
                    /\ lst.expire[g] > lst'.expire[h] => Pos(s2, g) > Pos(s2, h)
          /\ SameOrder(s1, s2, IF call'.op = "adjust_timer" THEN h ELSE NULL)
          /\ call'.op = "tick" =>
               /\ Len(fired') <= Len(s1)
               /\ FiredIds = SubSeq(s1, 1, Len(fired'))
               /\ s2 = SubSeq(s1, Len(fired') + 1, Len(s1))]_vars

\* four records were added with expiries 1, 1, 2, 1: the last one went behind
\* the interior record of expire 1, and a tick fired the three in arrival order
C14_Witness ==
  /\ queue = "lst" /\ call.op = "tick"
  /\ Len(fired) = 3
  /\ fired[1] = Entry(1, 1, 0) /\ fired[2] = Entry(2, 1, 0) /\ fired[3] = Entry(4, 1, 0)
  /\ lst_seq(lst) = <<3>>

\* a record whose expire equals the head's went behind the head
C14_WitnessHead ==
  /\ queue = "lst" /\ call.op = "add_timer" /\ call.h = 3
  /\ lst_seq(lst) = <<1, 3, 2>>
  /\ lst.expire[1] = lst.expire[3] /\ lst.expire[3] < lst.expire[2]

\* C15: del_timer(h) on a record of the heap clears h's callback and changes
\* nothing else (cur_size, capacity, every slot of the array and every expire
\* stay), and a record leaves the array only from the root, by pop_timer or by
\* a tick at or after its expire
C15_LazyCancelFrame ==
  [][queue = "heap" =>
       /\ (call'.op = "del_timer" /\ call'.h # NULL) =>
            /\ HeapIn(heap, call'.h) /\ HeapIn(heap', call'.h)
            /\ ~heap'.cb_func[call'.h]
            /\ heap' = [heap EXCEPT !.cb_func[call'.h] = FALSE]
       /\ \A h \in Ids :
            (HeapIn(heap, h) /\ ~HeapIn(heap', h)) =>
               \/ call'.op = "pop_timer" /\ h = heap.array[0]
               \/ call'.op = "tick" /\ heap.expire[h] <= call'.t]_vars

\* del_timer has cancelled a record that sits below the root of a heap of three
C15_Witness ==
  /\ queue = "heap" /\ call.op = "del_timer" /\ call.h # NULL
  /\ heap.cur_size = 3 /\ heap.array[0] # call.h
  /\ HeapIn(heap, call.h) /\ ~heap.cb_func[call.h]
  /\ heap.cb_func[heap.array[0]]

\* the cancelled record was at the root when a later pop_timer removed it
C15_WitnessPop ==
  /\ queue = "heap" /\ call.op = "pop_timer"
  /\ \E h \in cancelled : heap.mem[h] = "freed"
  /\ heap.cur_size >= 1

\* s without its element h
Without(s, h) ==
  [i \in 1..(Len(s) - 1) |-> IF i < Pos(s, h) THEN s[i] ELSE s[i + 1]]

\* the links of the records of s agree: a.next = b iff b.prev = a, and they
\* lead to records of s only
Linked(l, s) ==
  \A a \in Range(s) :
     /\ l.mem[a] = "live"
     /\ l.next[a] \in Range(s) \cup {NULL} /\ l.prev[a] \in Range(s) \cup {NULL}
     /\ \A b \in Range(s) : (l.next[a] = b) <=> (l.prev[b] = a)

\* C16: del_timer(h) on a record of the list (sole, head, tail or interior)
\* removes h and nothing else, keeps the other records in their order with
\* their expire, and leaves head, tail and the prev/next links consistent
C16_DelUnlinksOne ==
  [][(queue = "lst" /\ call'.op = "del_timer" /\ call'.h # NULL) =>
       \A h \in {call'.h} : \A s0 \in {lst_seq(lst)} : \A s \in {lst_seq(lst')} :
          /\ h \in Range(s0)
          /\ s = Without(s0, h)
          /\ lst'.mem[h] = "freed"
          /\ \A g \in Range(s) : lst'.expire[g] = lst.expire[g]
          /\ LstEnds(lst')
          /\ s = <<>> => lst'.tail = NULL
          /\ Linked(lst', s)]_vars

\* the record deleted lay between two others
C16_Witness ==
  /\ queue = "lst" /\ call.op = "del_timer" /\ call.h # NULL
  /\ Len(lst_seq(lst)) = 2
  /\ lst.expire[lst.head] < call.t /\ call.t < lst.expire[lst.tail]
  /\ lst.next[lst.head] = lst.tail /\ lst.prev[lst.tail] = lst.head

\* the record deleted was the head, the tail, the only one
C16_WitnessHead ==
  /\ queue = "lst" /\ call.op = "del_timer" /\ call.h # NULL
  /\ Len(lst_seq(lst)) = 2 /\ call.t < lst.expire[lst.head]
C16_WitnessTail ==
  /\ queue = "lst" /\ call.op = "del_timer" /\ call.h # NULL
  /\ Len(lst_seq(lst)) = 2 /\ call.t > lst.expire[lst.tail]
C16_WitnessSole ==
  /\ queue = "lst" /\ call.op = "del_timer" /\ call.h # NULL
  /\ lst.head = NULL /\ lst.tail = NULL
  /\ \E g \in Ids : invoked[g] = 1

\* C17: with callbacks that call add_timer on the heap firing them, the pop
\* that follows a callback removes the record that fired, so no callback runs
\* twice and no record is destroyed that was neither fired nor cancelled
C17_ReentrantAddIsSafe ==
  queue = "heap" =>
     \A h \in Ids :
        /\ invoked[h] <= 1
        /\ heap.mem[h] = "freed" => (invoked[h] = 1 \/ h \in cancelled)

\* C18: the heap the bulk constructor builds from size seed records, size <=
\* capacity, holds exactly those records (cur_size = size, each once), is in
\* heap order, and has a record of least expire at array[0]
C18_BulkConstructor ==
  (queue = "heap" /\ call.op = "time_heap" /\ call.ret = "ok") =>
     /\ heap.cur_size = call.t /\ heap.cur_size <= heap.capacity
     /\ {heap.array[i] : i \in 0..(heap.cur_size - 1)} = 1..call.t
     /\ \A i \in 1..(heap.cur_size - 1) :
          heap.expire[heap.array[i]] >= heap.expire[heap.array[(i - 1) \div 2]]
     /\ \A h \in 1..call.t : heap.expire[heap.array[0]] <= heap.expire[h]
     /\ \A i \in heap.cur_size..(heap.capacity - 1) : heap.array[i] = NULL

\* a seed of four with expiries 3, 3, 2, 1: the last record went up two levels
C18_Witness ==
  /\ queue = "heap" /\ call.op = "time_heap" /\ call.t = 4
  /\ heap.expire[1] = 3 /\ heap.expire[2] = 3 /\ heap.expire[3] = 2 /\ heap.expire[4] = 1
  /\ heap.array[0] = 4 /\ heap.array[1] = 1 /\ heap.array[2] = 3 /\ heap.array[3] = 2

\* C19: in the list head is null exactly when tail is null, and a non-null
\* tail is the last record linked from head, never a deleted one
C19_HeadTailAgree ==
  queue = "lst" =>
     /\ (lst.head = NULL) <=> (lst.tail = NULL)
     /\ lst.tail # NULL =>
          /\ lst.mem[lst.tail] = "live"
          /\ \A s \in {lst_seq(lst)} : s # <<>> /\ s[Len(s)] = lst.tail

\* C20: a heap built with any capacity >= 0 always has 0 <= cur_size <=
\* capacity, and its records lie in slots of the allocated array
C20_SizeWithinCapacity ==
  queue = "heap" =>
     /\ 0 <= heap.cur_size /\ heap.cur_size <= heap.capacity
     /\ \A i \in DOMAIN heap.array : i < heap.capacity
====
